---- MODULE Spec2Model ----
(***************************************************************************)
(* Model of optuna/_gp/acqf.py (acquisition functions LogEI, UCB, LCB over *)
(* a Gaussian-process posterior) and optuna/_gp/optim_sample.py (the       *)
(* sample-based maximizer).                                                *)
(*                                                                         *)
(* Numbers.  Floating-point values are modelled as fixed-point numbers     *)
(* with unit 1, extended with the IEEE specials: a value is a record       *)
(* [k, v] with k = "fin" (v the integer), k = "inf" (v = 1 or -1) or       *)
(* k = "nan".  Rounding is to the floor.                                   *)
(***************************************************************************)
EXTENDS Integers, Sequences, FiniteSets, TLC

VARIABLES
    heap,       \* the caller's numpy arrays: heap.X is the array passed as X
    inst,       \* the acquisition function instance, or None
    given,      \* the arguments of the construction that built inst (history)
    last,       \* the last call made and what it returned
    pinned,     \* an earlier seeded optimize_acqf_sample run kept for comparison
    thr,        \* per thread: the call in progress (concurrent evaluation)
    grad_mode,  \* torch's grad mode, one flag per thread
    lz          \* standard_logei on a batch: input, output, writes per position

vars == <<heap, inst, given, last, pinned, thr, grad_mode, lz>>

\* an array: a function on 1..n held as the sequence of its values
Arr(f) == <<>> \o f

None == [k |-> "none"]
Err(name) == [k |-> "error", v |-> name]
IsErr(r) == r.k = "error"

(***************************************************************************)
(* Floating-point values and the torch / numpy element operations on them. *)
(***************************************************************************)
Fin(n) == [k |-> "fin", v |-> n]
NaN == [k |-> "nan", v |-> 0]
PosInf == [k |-> "inf", v |-> 1]
NegInf == [k |-> "inf", v |-> -1]

IsNaN(a) == a.k = "nan"
IsFin(a) == a.k = "fin"
Sign(n) == IF n > 0 THEN 1 ELSE IF n < 0 THEN -1 ELSE 0
InfOf(s) == IF s > 0 THEN PosInf ELSE NegInf

\* a < b as IEEE compares: false as soon as one side is NaN
FLt(a, b) ==
    IF IsNaN(a) \/ IsNaN(b) THEN FALSE
    ELSE IF IsFin(a) /\ IsFin(b) THEN a.v < b.v
    ELSE IF IsFin(a) THEN b.v > 0
    ELSE IF IsFin(b) THEN a.v < 0
    ELSE a.v < b.v

FLe(a, b) ==
    IF IsNaN(a) \/ IsNaN(b) THEN FALSE
    ELSE IF IsFin(a) /\ IsFin(b) THEN a.v <= b.v
    ELSE IF IsFin(a) THEN b.v > 0
    ELSE IF IsFin(b) THEN a.v < 0
    ELSE a.v <= b.v

FNeg(a) == IF IsNaN(a) THEN NaN ELSE [k |-> a.k, v |-> -a.v]

FAdd(a, b) ==
    IF IsNaN(a) \/ IsNaN(b) THEN NaN
    ELSE IF IsFin(a) /\ IsFin(b) THEN Fin(a.v + b.v)
    ELSE IF IsFin(a) THEN b
    ELSE IF IsFin(b) THEN a
    ELSE IF a.v = b.v THEN a ELSE NaN

FSub(a, b) == FAdd(a, FNeg(b))

FMul(a, b) ==
    IF IsNaN(a) \/ IsNaN(b) THEN NaN
    ELSE IF IsFin(a) /\ IsFin(b) THEN Fin(a.v * b.v)
    ELSE IF Sign(a.v) * Sign(b.v) = 0 THEN NaN
    ELSE InfOf(Sign(a.v) * Sign(b.v))

\* floor division by a divisor of either sign
FloorDiv(n, d) == IF d > 0 THEN n \div d ELSE (-n) \div (-d)

FDiv(a, b) ==
    IF IsNaN(a) \/ IsNaN(b) THEN NaN
    ELSE IF IsFin(a) /\ IsFin(b)
         THEN IF b.v # 0 THEN Fin(FloorDiv(a.v, b.v))
              ELSE IF a.v = 0 THEN NaN ELSE InfOf(a.v)
    ELSE IF IsFin(a) THEN Fin(0)
    ELSE IF IsFin(b) THEN InfOf(a.v * (IF b.v < 0 THEN -1 ELSE 1))
    ELSE NaN

RECURSIVE ISqrtFrom(_, _)
ISqrtFrom(n, r) == IF (r + 1) * (r + 1) > n THEN r ELSE ISqrtFrom(n, r + 1)

\* torch.sqrt: NaN on a negative radicand
FSqrt(a) ==
    IF IsNaN(a) THEN NaN
    ELSE IF IsFin(a) THEN (IF a.v < 0 THEN NaN ELSE Fin(ISqrtFrom(a.v, 0)))
    ELSE IF a.v > 0 THEN PosInf ELSE NaN

RECURSIVE ILog(_)
ILog(n) == IF n < 3 THEN 0 ELSE 1 + ILog(n \div 3)

\* torch.log: -inf at 0, NaN below 0
FLog(a) ==
    IF IsNaN(a) THEN NaN
    ELSE IF IsFin(a)
         THEN IF a.v < 0 THEN NaN
              ELSE IF a.v = 0 THEN NegInf ELSE Fin(ILog(a.v))
    ELSE IF a.v > 0 THEN PosInf ELSE NaN

(***************************************************************************)
(* Integer vectors and matrices (sequences of rows); numpy.linalg.inv.     *)
(***************************************************************************)
RECURSIVE SumTo(_, _)
SumTo(f, n) == IF n = 0 THEN 0 ELSE f[n] + SumTo(f, n - 1)

Dot(a, b) == SumTo(Arr([i \in 1..Len(a) |-> a[i] * b[i]]), Len(a))
MatVec(M, v) == Arr([i \in 1..Len(M) |-> Dot(M[i], v)])
Drop(s, i) == Arr([j \in 1..(Len(s) - 1) |-> IF j < i THEN s[j] ELSE s[j + 1]])
Minor(M, i, j) == Arr([r \in 1..(Len(M) - 1) |-> Drop(Drop(M, i)[r], j)])

RECURSIVE Det(_)
Det(M) ==
    IF Len(M) = 0 THEN 1
    ELSE SumTo(Arr([j \in 1..Len(M) |->
                  (IF j % 2 = 1 THEN 1 ELSE -1) * M[1][j] * Det(Minor(M, 1, j))]),
               Len(M))

Adjugate(M) ==
    Arr([i \in 1..Len(M) |-> Arr([j \in 1..Len(M) |->
        (IF (i + j) % 2 = 0 THEN 1 ELSE -1) * Det(Minor(M, j, i))])])

\* numpy.linalg.inv: the exact inverse as the rational matrix num / den with
\* den > 0 (k = "mat"), or LinAlgError for a singular matrix
linalg_inv(M) ==
    LET d == Det(M)
        A == Adjugate(M)
    IN  IF d = 0 THEN Err("LinAlgError")
        ELSE IF d > 0 THEN [k |-> "mat", num |-> A, den |-> d]
        ELSE [k |-> "mat",
              num |-> Arr([i \in 1..Len(M) |-> Arr([j \in 1..Len(M) |-> -A[i][j]])]),
              den |-> -d]

(***************************************************************************)
(* The collaborators optuna._gp.gp and optuna._gp.search_space.            *)
(***************************************************************************)
\* search_space.scale_types == ScaleType.CATEGORICAL
is_categorical(search_space) ==
    Arr([i \in 1..Len(search_space) |-> search_space[i] = "CATEGORICAL"])

\* squared distance of two points, Hamming on the categorical dimensions
SqDist(is_cat, a, b) ==
    SumTo(Arr([i \in 1..Len(a) |->
             IF is_cat[i] THEN (IF a[i] = b[i] THEN 0 ELSE 1)
             ELSE (a[i] - b[i]) * (a[i] - b[i])]),
          Len(a))

\* gp.kernel on one pair of points: kernel_scale times a decreasing
\* function of the squared distance
kernel_pair(is_cat, kernel_params, a, b) ==
    LET d2 == SqDist(is_cat, a, b)
    IN  kernel_params.kernel_scale *
          (IF d2 = 0 THEN 4 ELSE IF d2 = 1 THEN 2 ELSE IF d2 <= 4 THEN 1 ELSE 0)

\* gp.kernel(is_categorical, kernel_params, A, B): the matrix of pairs
kernel(is_cat, kernel_params, A, B) ==
    Arr([i \in 1..Len(A) |-> Arr([j \in 1..Len(B) |->
        kernel_pair(is_cat, kernel_params, A[i], B[j])])])

\* gp.posterior at one query point: (mean, var)
posterior(kernel_params, X, is_cat, cov_Y_Y_inv, cov_Y_Y_inv_Y, x) ==
    LET cov_fx_fX == Arr([j \in 1..Len(X) |-> kernel_pair(is_cat, kernel_params, x, X[j])])
        cov_fx_fx == kernel_pair(is_cat, kernel_params, x, x)
        mean == FloorDiv(Dot(cov_fx_fX, cov_Y_Y_inv_Y.num), cov_Y_Y_inv_Y.den)
        var == cov_fx_fx
                 - FloorDiv(Dot(cov_fx_fX, MatVec(cov_Y_Y_inv.num, cov_fx_fX)),
                            cov_Y_Y_inv.den)
    IN  [mean |-> Fin(mean), var |-> Fin(var)]

RECURSIVE Stream(_, _)
\* the k-th state of the pseudo-random stream started from seed
Stream(seed, k) == IF k = 0 THEN seed ELSE (5 * Stream(seed, k - 1) + 3) % 16

\* search_space.sample_normalized_params(n, search_space, rng): n points of
\* the normalized grid 0..2, a function of the seed of the random source
sample_normalized_params(n, search_space, seed) ==
    Arr([j \in 1..n |-> Arr([i \in 1..Len(search_space) |->
        Stream(seed, (j - 1) * Len(search_space) + i) % 3])])

(***************************************************************************)
(* acqf.py: the acquisition formulas.  A batch is a sequence of values.    *)
(***************************************************************************)
\* x[mask]: the elements of x selected by a boolean mask, in order
RECURSIVE Gather(_, _)
Gather(x, mask) ==
    IF Len(x) = 0 THEN <<>>
    ELSE IF mask[1] THEN <<x[1]>> \o Gather(Tail(x), Tail(mask))
    ELSE Gather(Tail(x), Tail(mask))

\* the number of selected positions among the first i
RECURSIVE Rank(_, _)
Rank(mask, i) == IF i = 0 THEN 0 ELSE (IF mask[i] THEN 1 ELSE 0) + Rank(mask, i - 1)

\* vals[mask] = src: the selected positions overwritten, in order, by src
Scatter(vals, mask, src) ==
    Arr([i \in 1..Len(vals) |-> IF mask[i] THEN src[Rank(mask, i)] ELSE vals[i]])

MaskNot(mask) == Arr([i \in 1..Len(mask) |-> ~mask[i]])

\* log E[max(0, x + z)] at an integer z, rounded to the fixed-point grid
LogEIAt(z) ==
    IF z >= 1 THEN ILog(z) ELSE 0 - ((z * z) \div 2) - ILog(z * z + 1) - 1

\* First condition: log(z * cdf + pdf) with cdf = 0.5 * erfc(-z * sqrt(0.5)),
\* pdf = exp(-0.5 * z**2) / sqrt(2 * pi).  Far below zero the argument of the
\* logarithm underflows to 0.
NormalBranch(z) ==
    IF IsNaN(z) THEN NaN
    ELSE IF ~IsFin(z) THEN (IF z.v > 0 THEN PosInf ELSE NaN)
    ELSE IF z.v < -38 THEN NegInf
    ELSE Fin(LogEIAt(z.v))

\* Second condition: -0.5 * z**2 + log((z * r + 1) / sqrt(2 * pi)) with
\* r = sqrt(0.5 * pi) * erfcx(-z * sqrt(0.5)).  Far above zero erfcx overflows.
SmallBranch(z) ==
    IF IsNaN(z) THEN NaN
    ELSE IF ~IsFin(z) THEN NaN
    ELSE IF z.v > 37 THEN PosInf
    ELSE Fin(LogEIAt(z.v))

\* small = z <= -25
SmallMaskInclusive(z) == Arr([i \in 1..Len(z) |-> FLe(z[i], Fin(-25))])

\* small = z < -25
SmallMask(z) == Arr([i \in 1..Len(z) |-> FLt(z[i], Fin(-25))])

\* torch.empty_like(z): uninitialised storage, here filled with garbage g
empty_like(z, g) == Arr([i \in 1..Len(z) |-> g])

standard_logei(z, g) ==
    LET small == SmallMask(z)
        vals0 == empty_like(z, g)
        z_small == Gather(z, small)
        z_normal == Gather(z, MaskNot(small))
        vals1 == Scatter(vals0, MaskNot(small),
                         Arr([i \in 1..Len(z_normal) |-> NormalBranch(z_normal[i])]))
        vals2 == Scatter(vals1, small,
                         Arr([i \in 1..Len(z_small) |-> SmallBranch(z_small[i])]))
    IN  vals2

logei(mean, var, f0, g) ==
    LET sigma == Arr([i \in 1..Len(var) |-> FSqrt(var[i])])
        st_val == standard_logei(
                     Arr([i \in 1..Len(mean) |-> FDiv(FSub(mean[i], Fin(f0)), sigma[i])]), g)
    IN  Arr([i \in 1..Len(mean) |-> FAdd(FLog(sigma[i]), st_val[i])])

\* beta added to var under the root
ucb_sum_under_root(mean, var, beta) ==
    Arr([i \in 1..Len(mean) |-> FAdd(mean[i], FSqrt(FAdd(Fin(beta), var[i])))])

ucb(mean, var, beta) ==
    Arr([i \in 1..Len(mean) |-> FAdd(mean[i], FSqrt(FMul(Fin(beta), var[i])))])

lcb(mean, var, beta) ==
    Arr([i \in 1..Len(mean) |-> FSub(mean[i], FSqrt(FMul(Fin(beta), var[i])))])

(***************************************************************************)
(* acqf.py: the instance.  self.X is a reference to the caller's array,    *)
(* whose content is heap.X; everything else is stored by value.            *)
(***************************************************************************)
\* cov_Y_Y += noise_var, on every entry
AddToEveryEntry(cov_Y_Y, noise_var) ==
    Arr([i \in 1..Len(cov_Y_Y) |-> Arr([j \in 1..Len(cov_Y_Y) |->
        cov_Y_Y[i][j] + noise_var])])

\* cov_Y_Y[np.diag_indices(X.shape[0])] += kernel_params.noise_var.item()
AddToDiagonal(cov_Y_Y, noise_var) ==
    Arr([i \in 1..Len(cov_Y_Y) |-> Arr([j \in 1..Len(cov_Y_Y) |->
        cov_Y_Y[i][j] + (IF i = j THEN noise_var ELSE 0)])])

\* the assignments to self of BaseAcquisitionFunction.__init__, given the
\* result of np.linalg.inv(cov_Y_Y); the error if that raised
BaseFields(kernel_params, search_space, cov_Y_Y_inv, Y) ==
    IF IsErr(cov_Y_Y_inv) THEN cov_Y_Y_inv
    ELSE [k |-> "base",
          kernel_params |-> kernel_params,
          search_space |-> search_space,
          X |-> "heap.X",
          cov_Y_Y_inv |-> cov_Y_Y_inv,
          cov_Y_Y_inv_Y |-> [k |-> "vec",
                             num |-> MatVec(cov_Y_Y_inv.num, Y),
                             den |-> cov_Y_Y_inv.den]]

\* BaseAcquisitionFunction.__init__: the fields it sets, or the error raised
BaseInit(kernel_params, search_space, X, Y) ==
    BaseFields(kernel_params, search_space,
               linalg_inv(AddToDiagonal(
                   kernel(is_categorical(search_space), kernel_params, X, X),
                   kernel_params.noise_var)),
               Y)

RECURSIVE MaxOf(_, _)
MaxOf(Y, n) == IF n = 1 THEN Y[1]
               ELSE IF Y[n] > MaxOf(Y, n - 1) THEN Y[n] ELSE MaxOf(Y, n - 1)

\* LogEI.__init__
LogEIFields(base, Y, acqf_stabilizing_noise) ==
    IF IsErr(base) THEN base
    ELSE [k |-> "acqf", kind |-> "LogEI", base |-> base,
          max_Y |-> MaxOf(Y, Len(Y)),
          acqf_stabilizing_noise |-> acqf_stabilizing_noise]

LogEIInit(kernel_params, search_space, X, Y, acqf_stabilizing_noise) ==
    LogEIFields(BaseInit(kernel_params, search_space, X, Y), Y,
                acqf_stabilizing_noise)

\* BaseConfidenceBound.__init__ (cls is UCB or LCB)
\* a constructor that raises on beta <= 0
ConfidenceBoundFieldsChecked(cls, base, beta) ==
    IF IsErr(base) THEN base
    ELSE IF beta <= 0 THEN Err("ValueError")
    ELSE [k |-> "acqf", kind |-> cls, base |-> base, beta |-> beta]

ConfidenceBoundFields(cls, base, beta) ==
    IF IsErr(base) THEN base
    ELSE [k |-> "acqf", kind |-> cls, base |-> base, beta |-> beta]

ConfidenceBoundInit(cls, kernel_params, search_space, X, Y, beta) ==
    ConfidenceBoundFields(cls, BaseInit(kernel_params, search_space, X, Y), beta)

\* BaseAcquisitionFunction._get_mean_var on a batch x: reads the instance
\* and the array self.X refers to
get_mean_var(self, hp, x) ==
    Arr([i \in 1..Len(x) |->
        posterior(self.base.kernel_params, hp.X,
                  is_categorical(self.base.search_space),
                  self.base.cov_Y_Y_inv, self.base.cov_Y_Y_inv_Y, x[i])])

Means(mv) == Arr([i \in 1..Len(mv) |-> mv[i].mean])
Vars(mv) == Arr([i \in 1..Len(mv) |-> mv[i].var])

\* the formula of LogEI.eval / UCB.eval / LCB.eval on the posterior moments
Formula(self, mean, var, g) ==
    IF self.kind = "LogEI"
    THEN logei(mean,
               Arr([i \in 1..Len(var) |->
                  FAdd(var[i], Fin(self.acqf_stabilizing_noise))]),
               self.max_Y, g)
    ELSE IF self.kind = "UCB" THEN ucb(mean, var, self.beta)
    ELSE lcb(mean, var, self.beta)

EvalOn(self, mv, g) == Formula(self, Means(mv), Vars(mv), g)

\* LogEI.eval / UCB.eval / LCB.eval on a batch x
eval(self, hp, x, g) == EvalOn(self, get_mean_var(self, hp, x), g)

\* np.argmax, 1-based: the first NaN if there is one, else the first maximum
RECURSIVE ArgmaxScan(_, _, _)
ArgmaxScan(res, i, mi) ==
    IF i > Len(res) THEN mi
    ELSE IF IsNaN(res[i]) THEN i
    ELSE ArgmaxScan(res, i + 1, IF ~FLe(res[i], res[mi]) THEN i ELSE mi)

RECURSIVE ArgmaxScanLast(_, _, _)
ArgmaxScanLast(res, i, mi) ==
    IF i > Len(res) THEN mi
    ELSE IF IsNaN(res[i]) THEN i
    ELSE ArgmaxScanLast(res, i + 1, IF ~FLt(res[i], res[mi]) THEN i ELSE mi)

\* argmax taking the last of equal maxima (>= for > in the scan)
argmax_last_of_ties(res) == IF IsNaN(res[1]) THEN 1 ELSE ArgmaxScanLast(res, 2, 1)

argmax(res) == IF IsNaN(res[1]) THEN 1 ELSE ArgmaxScan(res, 2, 1)

\* eval_no_grad answering from the values of the previous evaluation when
\* the batch has the same shape
eval_no_grad_stale(self, hp, x, g) ==
    IF last.op = "eval_no_grad" /\ Len(last.arg) = Len(x)
    THEN last.ret.result
    ELSE eval(self, hp, x, g)

\* BaseAcquisitionFunction.eval_no_grad on a batch x
eval_no_grad(self, hp, x, g) == eval(self, hp, x, g)

\* x with 1 added to coordinate i
Bump(x, i) == Arr([j \in 1..Len(x) |-> IF j = i THEN x[j] + 1 ELSE x[j]])

\* val.backward(): x_tensor.grad, the difference quotient of eval along
\* each coordinate of x
backward(self, hp, x, g) ==
    Arr([i \in 1..Len(x) |->
        FSub(eval(self, hp, <<Bump(x, i)>>, g)[1], eval(self, hp, <<x>>, g)[1])])

\* eval_with_grad asserting x.ndim >= 1: a batch of one row goes through
eval_with_grad_batch_accepted(self, hp, input, g) ==
    IF input.ndim < 1
    THEN [outcome |-> Err("AssertionError"), result |-> None,
          trace |-> <<"assert">>]
    ELSE [outcome |-> [k |-> "ok"],
          result |-> [k |-> "pair",
                      val |-> eval(self, hp,
                                   IF input.ndim = 1 THEN <<input.data>> ELSE input.data,
                                   g)[1],
                      grad |-> backward(self, hp,
                                        IF input.ndim = 1 THEN input.data
                                        ELSE input.data[1], g)],
          trace |-> <<"assert", "from_numpy", "requires_grad_", "eval",
                      "backward", "return">>]

\* BaseAcquisitionFunction.eval_with_grad on an input array [ndim, data]:
\* the statements executed, how the call ends and what it returns
eval_with_grad(self, hp, input, g) ==
    IF input.ndim # 1
    THEN [outcome |-> Err("AssertionError"), result |-> None,
          trace |-> <<"assert">>]
    ELSE [outcome |-> [k |-> "ok"],
          result |-> [k |-> "pair",
                      val |-> eval(self, hp, <<input.data>>, g)[1],
                      grad |-> backward(self, hp, input.data, g)],
          trace |-> <<"assert", "from_numpy", "requires_grad_", "eval",
                      "backward", "return">>]

\* optim_sample.optimize_acqf_sample with a random source seeded by seed
\* best_i = np.argmax(res); return xs[best_i, :], res[best_i]
Best(xs, res, best_i) == [k |-> "pair", x |-> xs[best_i], val |-> res[best_i]]

\* a single value taken for an empty array
PickBestOffByOne(xs, res) ==
    IF Len(res) <= 1
    THEN [outcome |-> Err("ValueError"), result |-> None, xs |-> xs, res |-> res]
    ELSE [outcome |-> [k |-> "ok"], result |-> Best(xs, res, argmax(res)),
          xs |-> xs, res |-> res]

\* the end of optimize_acqf_sample on the sample xs and its values res:
\* np.argmax raises ValueError on an empty array
PickBest(xs, res) ==
    IF Len(res) = 0
    THEN [outcome |-> Err("ValueError"), result |-> None, xs |-> xs, res |-> res]
    ELSE [outcome |-> [k |-> "ok"], result |-> Best(xs, res, argmax(res)),
          xs |-> xs, res |-> res]

Evaluated(acqf, hp, xs, g) == PickBest(xs, eval_no_grad(acqf, hp, xs, g))

\* optim_sample.optimize_acqf_sample with a random source seeded by seed
optimize_acqf_sample(acqf, hp, n_samples, seed, g) ==
    Evaluated(acqf, hp,
              sample_normalized_params(n_samples, acqf.base.search_space, seed), g)

(***************************************************************************)
(* The inputs the calls are made with.                                     *)
(***************************************************************************)
MaxBatch == 2
MaxSamples == 2
MaxWrites == 1

Problems ==
    { [search_space |-> <<"LINEAR">>, X |-> <<<<0>>, <<2>>>>, Y |-> <<1, 3>>],
      [search_space |-> <<"LINEAR">>, X |-> <<<<1>>, <<1>>>>, Y |-> <<0, 90>>],
      [search_space |-> <<"LINEAR", "CATEGORICAL">>,
       X |-> <<<<0, 0>>, <<2, 1>>>>, Y |-> <<3, 1>>] }

KernelParamsSet ==
    { [kernel_scale |-> 1, noise_var |-> 1], [kernel_scale |-> 1, noise_var |-> 0] }

Betas == {-1, 0, 4}
StabilizingNoises == {0, 1}
Seeds == {0, 1}
Entropy == {2, 3}
Garbage == {NaN, Fin(0)}

\* what torch.empty_like may hold when self evaluates: only LogEI reaches it
GarbageOf(self) == IF self.kind = "LogEI" THEN Garbage ELSE {NaN}
Grid == 0..2

Candidates(search_space) ==
    IF Len(search_space) = 1 THEN {<<0>>, <<1>>} ELSE {<<0, 0>>, <<1, 1>>}

SeqsUpTo(S, n) == UNION {[1..m -> S] : m \in 1..n}

GradInputs(search_space) ==
    {[ndim |-> 0, data |-> 1]}
      \cup {[ndim |-> 1, data |-> x] : x \in Candidates(search_space)}
      \cup {[ndim |-> 2, data |-> <<x>>] : x \in Candidates(search_space)}

(***************************************************************************)
(* The caller's program: it builds an instance, evaluates it, maximizes it *)
(* by sampling, writes into the array it passed as X, drops the instance.  *)
(***************************************************************************)
NoThreads == [t \in {} |-> None]
NoBatch == [k |-> "none"]

\* the record of a call: the operation, its argument and what it did
Call(op, arg, r) == [op |-> op, arg |-> arg, ret |-> r]

\* the kept run, with what was called since it was kept: "eval" for an
\* evaluation, "run" for a run of optimize_acqf_sample
Noted(pin, what) ==
    IF pin = None THEN None ELSE [run |-> pin.run, since |-> pin.since \cup {what}]

Init ==
    /\ heap = None
    /\ inst = None
    /\ given = None
    /\ last = [op |-> "start"]
    /\ pinned = None
    /\ thr = NoThreads
    /\ grad_mode = NoThreads
    /\ lz = NoBatch

Built(r, p, arg) ==
    /\ inst' = (IF IsErr(r) THEN None ELSE r)
    /\ heap' = (IF IsErr(r) THEN None ELSE [X |-> p.X, writes |-> 0])
    /\ given' = (IF IsErr(r) THEN None ELSE [X |-> p.X, Y |-> p.Y, arg |-> arg])
    /\ last' = Call("construct", arg,
                    [outcome |-> (IF IsErr(r) THEN r ELSE [k |-> "ok"])])
    /\ pinned' = None
    /\ UNCHANGED <<thr, grad_mode, lz>>

NewLogEI ==
    /\ inst = None
    /\ \E p \in Problems, kp \in KernelParamsSet, noise \in StabilizingNoises :
         Built(LogEIInit(kp, p.search_space, p.X, p.Y, noise), p,
               [kind |-> "LogEI", kernel_params |-> kp, problem |-> p,
                acqf_stabilizing_noise |-> noise])

NewConfidenceBound ==
    /\ inst = None
    /\ \E cls \in {"UCB", "LCB"}, p \in Problems, kp \in KernelParamsSet,
          beta \in Betas :
         Built(ConfidenceBoundInit(cls, kp, p.search_space, p.X, p.Y, beta), p,
               [kind |-> cls, kernel_params |-> kp, problem |-> p, beta |-> beta])

EvalNoGrad ==
    /\ inst # None
    /\ \E x \in SeqsUpTo(Candidates(inst.base.search_space), MaxBatch),
          g \in GarbageOf(inst) :
         last' = Call("eval_no_grad", x,
                      [outcome |-> [k |-> "ok"],
                       result |-> eval_no_grad(inst, heap, x, g)])
    /\ pinned' = Noted(pinned, "eval")
    /\ UNCHANGED <<heap, inst, given, thr, grad_mode, lz>>

\* eval_with_grad writing its input over the first row of self.X
EvalWithGradWritingX ==
    /\ inst # None
    /\ \E input \in GradInputs(inst.base.search_space), g \in GarbageOf(inst) :
         /\ last' = Call("eval_with_grad", input, eval_with_grad(inst, heap, input, g))
         /\ heap' = (IF input.ndim = 1
                     THEN [X |-> [heap.X EXCEPT ![1] = input.data],
                           writes |-> heap.writes]
                     ELSE heap)
    /\ pinned' = Noted(pinned, "eval")
    /\ UNCHANGED <<inst, given, thr, grad_mode, lz>>

EvalWithGrad ==
    /\ inst # None
    /\ \E input \in GradInputs(inst.base.search_space), g \in GarbageOf(inst) :
         last' = Call("eval_with_grad", input, eval_with_grad(inst, heap, input, g))
    /\ pinned' = Noted(pinned, "eval")
    /\ UNCHANGED <<heap, inst, given, thr, grad_mode, lz>>

\* rng is a fresh RandomState(seed), or None (-1): the default source, seeded
\* from the system's entropy
Optimize(n, rng, e, g) ==
    /\ inst # None
    /\ last' = Call("optimize_acqf_sample", [n_samples |-> n, rng |-> rng],
                    optimize_acqf_sample(inst, heap, n,
                                         IF rng = -1 THEN e ELSE rng, g))
    /\ UNCHANGED <<heap, inst, given, thr, grad_mode, lz>>

OptimizeAcqfSample ==
    /\ inst # None
    /\ \E n \in 0..MaxSamples, rng \in Seeds \cup {-1}, g \in GarbageOf(inst) :
         \E e \in (IF rng = -1 THEN Entropy ELSE {rng}) : Optimize(n, rng, e, g)
    /\ pinned' = Noted(pinned, "run")

\* the caller assigns X[0, j] = v on the array it passed to the constructor
CallerWritesX ==
    /\ inst # None
    /\ heap.writes < MaxWrites
    /\ \E j \in 1..Len(inst.base.search_space), v \in Grid :
         /\ heap.X[1][j] # v
         /\ heap' = [X |-> [heap.X EXCEPT ![1][j] = v], writes |-> heap.writes + 1]
    /\ last' = [op |-> "caller_write"]
    /\ pinned' = None
    /\ UNCHANGED <<inst, given, thr, grad_mode, lz>>

\* the caller drops the instance and its arrays
Discard ==
    /\ inst # None
    /\ inst' = None
    /\ heap' = None
    /\ given' = None
    /\ last' = [op |-> "discard"]
    /\ pinned' = None
    /\ UNCHANGED <<thr, grad_mode, lz>>

Next ==
    \/ NewLogEI
    \/ NewConfidenceBound
    \/ EvalNoGrad
    \/ EvalWithGrad
    \/ OptimizeAcqfSample
    \/ CallerWritesX
    \/ Discard

Spec == Init /\ [][Next]_vars

(***************************************************************************)
(* Repeated runs of optimize_acqf_sample on one instance: any seeded run   *)
(* may be the one kept in pinned, to be compared with every later run.     *)
(***************************************************************************)
OptimizeAndPin ==
    /\ inst # None
    /\ \E n \in 1..MaxSamples, rng \in Seeds, g \in GarbageOf(inst) :
         Optimize(n, rng, rng, g)
    /\ pinned' = [run |-> last', since |-> {}]

NextSeeded ==
    \/ NewLogEI
    \/ NewConfidenceBound
    \/ EvalNoGrad
    \/ EvalWithGrad
    \/ OptimizeAcqfSample
    \/ OptimizeAndPin

SpecSeeded == Init /\ [][NextSeeded]_vars

(***************************************************************************)
(* standard_logei on its own, over batches around the threshold.           *)
(***************************************************************************)
MaxZ == 3

ZValues == {Fin(-40), Fin(-26), Fin(-25), Fin(-24), Fin(0), NaN, NegInf, PosInf}

\* the writes of standard_logei per position: vals[~small] = ... appends
\* "normal" to every position it assigns, vals[small] = ... appends "small"
standard_logei_writes(z) ==
    Scatter(Scatter(Arr([i \in 1..Len(z) |-> <<>>]),
                    MaskNot(SmallMask(z)),
                    Arr([i \in 1..Len(Gather(z, MaskNot(SmallMask(z)))) |-> <<"normal">>])),
            SmallMask(z),
            Arr([i \in 1..Len(Gather(z, SmallMask(z))) |-> <<"small">>]))

InitLogEI ==
    /\ heap = None
    /\ inst = None
    /\ given = None
    /\ last = [op |-> "start"]
    /\ pinned = None
    /\ thr = NoThreads
    /\ grad_mode = NoThreads
    /\ lz = NoBatch

StandardLogei ==
    /\ lz = NoBatch
    /\ \E z \in SeqsUpTo(ZValues, MaxZ), g \in Garbage :
         lz' = [k |-> "batch", z |-> z, g |-> g,
                vals |-> standard_logei(z, g),
                by |-> standard_logei_writes(z)]
    /\ UNCHANGED <<heap, inst, given, last, pinned, thr, grad_mode>>

\* the caller takes the result
StandardLogeiReturn ==
    /\ lz # NoBatch
    /\ lz' = NoBatch
    /\ UNCHANGED <<heap, inst, given, last, pinned, thr, grad_mode>>

NextLogEI == StandardLogei \/ StandardLogeiReturn

SpecLogEI == InitLogEI /\ [][NextLogEI]_vars

(***************************************************************************)
(* Threads evaluating one instance concurrently, one statement at a time.  *)
(* torch keeps the grad mode per thread; a thread starts with it enabled.  *)
(***************************************************************************)
NThreads == 2
Threads == 1..NThreads

Idle == [pc |-> "idle"]

ConcInstances ==
    { LogEIInit([kernel_scale |-> 1, noise_var |-> 1], <<"LINEAR">>,
                <<<<1>>, <<1>>>>, <<0, 90>>, 1),
      ConfidenceBoundInit("UCB", [kernel_scale |-> 1, noise_var |-> 1],
                          <<"LINEAR", "CATEGORICAL">>,
                          <<<<0, 0>>, <<2, 1>>>>, <<3, 1>>, 4) }

ConcX(self) == IF Len(self.base.search_space) = 1 THEN <<<<1>>, <<1>>>>
               ELSE <<<<0, 0>>, <<2, 1>>>>

ConcBatches(search_space) ==
    IF Len(search_space) = 1 THEN {<<<<0>>>>, <<<<2>>, <<1>>>>}
    ELSE {<<<<0, 0>>>>, <<<<2, 0>>, <<1, 1>>>>}

ConcGradInputs(search_space) ==
    IF Len(search_space) = 1
    THEN {[ndim |-> 1, data |-> <<0>>], [ndim |-> 1, data |-> <<2>>],
          [ndim |-> 2, data |-> <<<<0>>>>]}
    ELSE {[ndim |-> 1, data |-> <<0, 0>>], [ndim |-> 1, data |-> <<1, 1>>],
          [ndim |-> 2, data |-> <<<<0, 0>>>>]}

InitConc ==
    /\ inst \in ConcInstances
    /\ heap = [X |-> ConcX(inst), writes |-> 0]
    /\ given = None
    /\ last = [op |-> "start"]
    /\ pinned = None
    /\ thr = [t \in Threads |-> Idle]
    /\ grad_mode = [t \in Threads |-> TRUE]
    /\ lz = NoBatch

\* a grad mode shared by all threads
no_grad_enter_global(gm, t) == [u \in DOMAIN gm |-> FALSE]

\* with torch.no_grad(): entering disables the calling thread's grad mode
no_grad_enter(gm, t) == [gm EXCEPT ![t] = FALSE]

\* leaving restores the mode the thread had on entry
no_grad_exit(gm, t, prev) == [gm EXCEPT ![t] = prev]

\* a thread calls eval_no_grad(x) or eval_with_grad(input)
Begin(t) ==
    /\ thr[t].pc = "idle"
    /\ \/ \E x \in ConcBatches(inst.base.search_space), g \in GarbageOf(inst) :
            thr' = [thr EXCEPT ![t] = [pc |-> "no_grad", op |-> "eval_no_grad",
                                       arg |-> x, g |-> g]]
       \/ \E input \in ConcGradInputs(inst.base.search_space), g \in GarbageOf(inst) :
            thr' = [thr EXCEPT ![t] = [pc |-> "assert", op |-> "eval_with_grad",
                                       arg |-> input, g |-> g]]
    /\ UNCHANGED <<heap, inst, given, last, pinned, grad_mode, lz>>

\* eval_no_grad: with torch.no_grad():
NoGradEnter(t) ==
    /\ thr[t].pc = "no_grad"
    /\ grad_mode' = no_grad_enter(grad_mode, t)
    /\ thr' = [thr EXCEPT ![t] = [pc |-> "eval", op |-> thr[t].op, arg |-> thr[t].arg,
                                  g |-> thr[t].g, prev |-> grad_mode[t]]]
    /\ UNCHANGED <<heap, inst, given, last, pinned, lz>>

\* eval_no_grad: self.eval(torch.from_numpy(x)).detach().numpy()
NoGradEval(t) ==
    /\ thr[t].pc = "eval"
    /\ thr' = [thr EXCEPT ![t] = [pc |-> "exit", op |-> thr[t].op, arg |-> thr[t].arg,
                                  g |-> thr[t].g, prev |-> thr[t].prev,
                                  value |-> eval(inst, heap, thr[t].arg, thr[t].g)]]
    /\ UNCHANGED <<heap, inst, given, last, pinned, grad_mode, lz>>

\* eval_no_grad: the with block is left and the value returned
NoGradExit(t) ==
    /\ thr[t].pc = "exit"
    /\ grad_mode' = no_grad_exit(grad_mode, t, thr[t].prev)
    /\ thr' = [thr EXCEPT ![t] = [pc |-> "done", op |-> thr[t].op, arg |-> thr[t].arg,
                                  g |-> thr[t].g,
                                  ret |-> [outcome |-> [k |-> "ok"],
                                           result |-> thr[t].value]]]
    /\ UNCHANGED <<heap, inst, given, last, pinned, lz>>

\* eval_with_grad: assert x.ndim == 1
GradAssert(t) ==
    /\ thr[t].pc = "assert"
    /\ thr' = [thr EXCEPT ![t] =
                 IF thr[t].arg.ndim # 1
                 THEN [pc |-> "done", op |-> thr[t].op, arg |-> thr[t].arg,
                       g |-> thr[t].g,
                       ret |-> [outcome |-> Err("AssertionError"), result |-> None]]
                 ELSE [pc |-> "tensor", op |-> thr[t].op, arg |-> thr[t].arg,
                       g |-> thr[t].g]]
    /\ UNCHANGED <<heap, inst, given, last, pinned, grad_mode, lz>>

\* eval_with_grad: x_tensor = torch.from_numpy(x); x_tensor.requires_grad_(True)
GradTensor(t) ==
    /\ thr[t].pc = "tensor"
    /\ thr' = [thr EXCEPT ![t] = [pc |-> "hook", op |-> thr[t].op, arg |-> thr[t].arg,
                                  g |-> thr[t].g, requires_grad |-> TRUE]]
    /\ UNCHANGED <<heap, inst, given, last, pinned, grad_mode, lz>>

\* eval_with_grad: val = self.eval(x_tensor); the graph is recorded when the
\* thread's grad mode is enabled and the input requires grad
GradEval(t) ==
    /\ thr[t].pc = "hook"
    /\ thr' = [thr EXCEPT ![t] = [pc |-> "backward", op |-> thr[t].op,
                                  arg |-> thr[t].arg, g |-> thr[t].g,
                                  val |-> eval(inst, heap, <<thr[t].arg.data>>, thr[t].g)[1],
                                  graph |-> grad_mode[t] /\ thr[t].requires_grad]]
    /\ UNCHANGED <<heap, inst, given, last, pinned, grad_mode, lz>>

\* eval_with_grad: val.backward(), which raises when val has no graph, and
\* return val.item(), x_tensor.grad.detach().numpy()
GradBackward(t) ==
    /\ thr[t].pc = "backward"
    /\ thr' = [thr EXCEPT ![t] =
                 [pc |-> "done", op |-> thr[t].op, arg |-> thr[t].arg, g |-> thr[t].g,
                  ret |-> IF thr[t].graph
                          THEN [outcome |-> [k |-> "ok"],
                                result |-> [k |-> "pair", val |-> thr[t].val,
                                            grad |-> backward(inst, heap, thr[t].arg.data,
                                                              thr[t].g)]]
                          ELSE [outcome |-> Err("RuntimeError"), result |-> None]]]
    /\ UNCHANGED <<heap, inst, given, last, pinned, grad_mode, lz>>

\* the caller takes the result; the thread is free for its next call
Finish(t) ==
    /\ thr[t].pc = "done"
    /\ thr' = [thr EXCEPT ![t] = Idle]
    /\ UNCHANGED <<heap, inst, given, last, pinned, grad_mode, lz>>

NextConc ==
    \E t \in Threads :
        \/ Begin(t)
        \/ NoGradEnter(t)
        \/ NoGradEval(t)
        \/ NoGradExit(t)
        \/ GradAssert(t)
        \/ GradTensor(t)
        \/ GradEval(t)
        \/ GradBackward(t)
        \/ Finish(t)

SpecConc == InitConc /\ [][NextConc]_vars

(***************************************************************************)
(* Properties.                                                             *)
(***************************************************************************)
IsRun(c) == c.op = "optimize_acqf_sample"
Ok(c) == c.ret.outcome = [k |-> "ok"]
HasNaN(res) == \E j \in 1..Len(res) : IsNaN(res[j])

\* C1 as stated: a run of optimize_acqf_sample with n_samples >= 1 returns
\* (xs[i], res[i]) for the smallest i whose value is >= every value of the batch
C1_ReturnsFirstMaximum ==
    (IsRun(last) /\ last.arg.n_samples >= 1) =>
        /\ Ok(last)
        /\ \E i \in 1..Len(last.ret.res) :
              /\ last.ret.result = [k |-> "pair", x |-> last.ret.xs[i],
                                    val |-> last.ret.res[i]]
              /\ \A j \in 1..Len(last.ret.res) : FLe(last.ret.res[j], last.ret.res[i])
              /\ \A j \in 1..(i - 1) : last.ret.res[j] # last.ret.res[i]

\* C1 amended: as above when no value of the batch is NaN; when one is, the
\* pair returned is the one at the first NaN
C1_FirstMaximumOrFirstNaN ==
    (IsRun(last) /\ last.arg.n_samples >= 1) =>
        /\ Ok(last)
        /\ Len(last.ret.res) = last.arg.n_samples
        /\ \E i \in 1..Len(last.ret.res) :
              /\ last.ret.result = [k |-> "pair", x |-> last.ret.xs[i],
                                    val |-> last.ret.res[i]]
              /\ IF HasNaN(last.ret.res)
                 THEN /\ IsNaN(last.ret.res[i])
                      /\ \A j \in 1..(i - 1) : ~IsNaN(last.ret.res[j])
                 ELSE /\ \A j \in 1..Len(last.ret.res) :
                            FLe(last.ret.res[j], last.ret.res[i])
                      /\ \A j \in 1..(i - 1) : last.ret.res[j] # last.ret.res[i]

\* a run over two candidates of equal, maximal value: the tie is broken
C1_TieReached ==
    /\ IsRun(last)
    /\ last.arg.n_samples = 2
    /\ ~HasNaN(last.ret.res)
    /\ last.ret.res[1] = last.ret.res[2]
    /\ last.ret.xs[1] # last.ret.xs[2]

\* C2: two runs of optimize_acqf_sample on one instance with the same
\* n_samples and random sources created from the same seed return the same
\* output, whatever was evaluated on the instance between them
C2_SameSeedSameOutput ==
    (/\ pinned # None
     /\ "run" \in pinned.since
     /\ IsRun(last)
     /\ last.arg = pinned.run.arg) =>
        /\ last.ret.outcome = pinned.run.ret.outcome
        /\ last.ret.result = pinned.run.ret.result

\* a second run with the arguments of the kept one, after evaluations
C2_RerunReached ==
    /\ pinned # None
    /\ pinned.since = {"eval", "run"}
    /\ IsRun(last)
    /\ last.arg = pinned.run.arg
    /\ last.arg.n_samples = 2

EvalOps == {"eval_no_grad", "eval_with_grad", "optimize_acqf_sample"}

\* C3: no call of eval_no_grad, eval_with_grad or optimize_acqf_sample,
\* failed or not, changes a field of the instance or the array X refers to
C3_CallsLeaveInstanceUnchanged ==
    [][(last'.op \in EvalOps) => (inst' = inst /\ heap' = heap)]_vars

\* a failed call on an instance
C3_FailedCallReached ==
    /\ inst # None
    /\ last.op \in EvalOps
    /\ IsErr(last.ret.outcome)

\* C4: eval_with_grad on an input of ndim # 1 raises AssertionError before
\* the formula is evaluated or differentiated and returns nothing; on a
\* 1-dimensional input of length d it returns a value and a gradient of
\* length d
C4_GradientNeedsOneDimension ==
    (last.op = "eval_with_grad") =>
        IF last.arg.ndim # 1
        THEN /\ last.ret.outcome = Err("AssertionError")
             /\ last.ret.result = None
             /\ \A i \in 1..Len(last.ret.trace) :
                    last.ret.trace[i] \notin {"eval", "backward", "return"}
        ELSE /\ Ok(last)
             /\ last.ret.result.k = "pair"
             /\ last.ret.result.val.k \in {"fin", "inf", "nan"}
             /\ Len(last.ret.result.grad) = Len(last.arg.data)

\* eval_with_grad called on a 2-dimensional input
C4_TwoDimensionalInputReached ==
    /\ last.op = "eval_with_grad"
    /\ last.arg.ndim = 2

ConfidenceBounds == {"UCB", "LCB"}

\* C5 as stated: constructing UCB or LCB with beta <= 0 raises, and no UCB
\* or LCB instance holds a beta <= 0
C5_NonPositiveBetaRejected ==
    /\ (inst # None /\ inst.kind \in ConfidenceBounds) => inst.beta > 0
    /\ (/\ last.op = "construct"
        /\ last.arg.kind \in ConfidenceBounds
        /\ last.arg.beta <= 0) => IsErr(last.ret.outcome)

\* the regularized kernel matrix K(X, X) + noise_var * I
RegularizedKernel(kernel_params, search_space, X) ==
    Arr([i \in 1..Len(X) |-> Arr([j \in 1..Len(X) |->
        kernel_pair(is_categorical(search_space), kernel_params, X[i], X[j])
          + (IF i = j THEN kernel_params.noise_var ELSE 0)])])

\* C5 amended: the construction of UCB or LCB does not look at beta: it fails
\* only when the regularized kernel matrix is singular, and otherwise
\* the instance holds the beta given, positive or not
C5_BetaStoredUnchecked ==
    (last.op = "construct" /\ last.arg.kind \in ConfidenceBounds) =>
        IF Det(RegularizedKernel(last.arg.kernel_params,
                                 last.arg.problem.search_space,
                                 last.arg.problem.X)) = 0
        THEN last.ret.outcome = Err("LinAlgError") /\ inst = None
        ELSE /\ Ok(last)
             /\ inst # None
             /\ inst.kind = last.arg.kind
             /\ inst.beta = last.arg.beta

\* a UCB instance built with a negative beta
C5_NegativeBetaBuilt ==
    /\ last.op = "construct"
    /\ inst # None
    /\ inst.kind = "UCB"
    /\ inst.beta < 0

\* C6: whatever the interleaving of the threads' calls, a finished call has
\* the result it has when run alone on the instance, and a step writes
\* neither the instance, nor the array X refers to, nor another thread's call
C6_ConcurrentCallsAsAlone ==
    /\ [](\A t \in DOMAIN thr :
            thr[t].pc = "done" =>
               IF thr[t].op = "eval_no_grad"
               THEN thr[t].ret = [outcome |-> [k |-> "ok"],
                                  result |-> eval_no_grad(inst, heap, thr[t].arg, thr[t].g)]
               ELSE /\ thr[t].ret.outcome =
                          eval_with_grad(inst, heap, thr[t].arg, thr[t].g).outcome
                    /\ thr[t].ret.result =
                          eval_with_grad(inst, heap, thr[t].arg, thr[t].g).result)
    /\ [][/\ inst' = inst
          /\ heap' = heap
          /\ \A t, u \in DOMAIN thr :
                (thr'[t] # thr[t] /\ thr'[u] # thr[u]) => t = u]_vars

\* a gradient call finishes while another thread is inside torch.no_grad()
C6_OverlapReached ==
    \E t, u \in DOMAIN thr :
        /\ thr[t].pc = "done"
        /\ thr[t].op = "eval_with_grad"
        /\ Ok(thr[t])
        /\ thr[u].pc \in {"eval", "exit"}

\* C7: with n_samples = 1 optimize_acqf_sample returns the one candidate
\* sampled and the value eval_no_grad gives for it, whatever the value
C7_SingleSampleReturned ==
    (IsRun(last) /\ last.arg.n_samples = 1) =>
        /\ Ok(last)
        /\ Len(last.ret.xs) = 1
        /\ last.arg.rng # -1 =>
              last.ret.xs = sample_normalized_params(1, inst.base.search_space,
                                                     last.arg.rng)
        /\ last.ret.result.x = last.ret.xs[1]
        /\ last.ret.result.val = eval_no_grad(inst, heap, last.ret.xs, NaN)[1]

\* a run with n_samples = 1 whose value is NaN
C7_SingleNaNReached ==
    /\ IsRun(last)
    /\ last.arg.n_samples = 1
    /\ Ok(last)
    /\ IsNaN(last.ret.result.val)

\* C8: a UCB or LCB instance with beta = 0 evaluates to the posterior mean
C8_ZeroBetaIsMean ==
    (inst # None /\ inst.kind \in ConfidenceBounds /\ inst.beta = 0) =>
        /\ last.op = "eval_no_grad" =>
              last.ret.result = Means(get_mean_var(inst, heap, last.arg))
        /\ (last.op = "eval_with_grad" /\ Ok(last)) =>
              last.ret.result.val =
                 Means(get_mean_var(inst, heap, <<last.arg.data>>))[1]

\* LCB with beta = 0 evaluated where the posterior variance is positive
C8_ZeroBetaEvaluated ==
    /\ inst # None
    /\ inst.kind = "LCB"
    /\ inst.beta = 0
    /\ last.op = "eval_no_grad"
    /\ Vars(get_mean_var(inst, heap, last.arg))[1].v > 0

\* z < -25, with -inf below and NaN not
Below25(a) == (a.k = "fin" /\ a.v < -25) \/ (a.k = "inf" /\ a.v < 0)

\* C9: standard_logei returns a batch of the shape of its input in which
\* every position is written once, by the small branch where z < -25 and by
\* the normal branch elsewhere (z = -25 included), with the value that
\* branch gives for that element alone
C9_ElementwiseRouting ==
    (lz # NoBatch) =>
        /\ Len(lz.vals) = Len(lz.z)
        /\ Len(lz.by) = Len(lz.z)
        /\ \A i \in 1..Len(lz.z) :
              IF Below25(lz.z[i])
              THEN lz.by[i] = <<"small">> /\ lz.vals[i] = SmallBranch(lz.z[i])
              ELSE lz.by[i] = <<"normal">> /\ lz.vals[i] = NormalBranch(lz.z[i])

\* a batch with elements on both sides of the threshold and one exactly on it
C9_MixedBatchReached ==
    /\ lz # NoBatch
    /\ Len(lz.z) = 3
    /\ lz.z[1] = Fin(-25)
    /\ lz.z[2] = Fin(-26)
    /\ lz.z[3] = Fin(0)

MatMul(A, B) ==
    Arr([i \in 1..Len(A) |-> Arr([j \in 1..Len(B[1]) |->
        SumTo(Arr([m \in 1..Len(B) |-> A[i][m] * B[m][j]]), Len(B))])])

\* inv.num / inv.den is the inverse of M
IsInverseOf(inv, M) ==
    /\ inv.den > 0
    /\ Len(inv.num) = Len(M)
    /\ \A i, j \in 1..Len(M) :
          MatMul(inv.num, M)[i][j] = (IF i = j THEN inv.den ELSE 0)

CacheMatches(X) ==
    /\ IsInverseOf(inst.base.cov_Y_Y_inv,
                   RegularizedKernel(inst.base.kernel_params,
                                     inst.base.search_space, X))
    /\ inst.base.cov_Y_Y_inv_Y.den = inst.base.cov_Y_Y_inv.den
    /\ inst.base.cov_Y_Y_inv_Y.num = MatVec(inst.base.cov_Y_Y_inv.num, given.Y)

\* C10 as stated: the cached inverse is always the inverse of
\* K(X, X) + noise_var * I for the X the instance holds, whatever the caller
\* does with the arrays it passed in
C10_CacheAlwaysMatchesX ==
    (inst # None) => CacheMatches(heap.X)

\* C10 amended: it is, as long as the caller has not written into the array
\* it passed as X
C10_CacheMatchesUnwrittenX ==
    (inst # None /\ heap.writes = 0) => CacheMatches(heap.X)

\* an instance over two points, evaluated, its array untouched
C10_EvaluatedInstanceReached ==
    /\ inst # None
    /\ heap.writes = 0
    /\ Len(heap.X) = 2
    /\ inst.base.kernel_params.noise_var = 1
    /\ last.op = "eval_no_grad"

====
